---- MODULE Spec2Model ----
(***************************************************************************)
(* Model of the PCA image compressor (compress_image.py) and of the Flask  *)
(* upload endpoint that drives it (app.py).                                *)
(*                                                                         *)
(* Numbers.  quality_percentage is a Python float.  A finite quality is    *)
(* held as the integer numerator num of num / QScale; the non-finite       *)
(* floats inf, -inf and nan are separate kinds.  With QScale a power of   *)
(* two such a quality is an exact float, and so is its product with an     *)
(* image side; the division by 100 is then correctly rounded and cannot    *)
(* cross an integer, so int() of it is the truncated exact quotient.  A    *)
(* finite quality near the largest float64 is the kind "huge": num is its  *)
(* sign and lim the largest image side whose product with it is still      *)
(* finite (1e308 has lim 1: 2 * 1e308 is inf).                             *)
(*                                                                         *)
(* PCA.  The principal directions of a channel are found among the integer *)
(* vectors with entries of size at most DirMax, where they are exact: the  *)
(* scores and the reconstruction are then rational numbers and computed as *)
(* such.  The input images are those whose channels have all their         *)
(* principal directions there.  A reconstructed channel value (a float64)  *)
(* is held as the integer numerator of value / RScale, rounded down.       *)
(***************************************************************************)
EXTENDS Integers, Sequences, FiniteSets, TLC

\* ---------------------------------------------------------------- bounds
MaxDim == 4          \* largest image height and width explored
QScale == 4          \* denominator of a finite quality value
QOver  == 10         \* how far beyond [0, 100] the quality range is explored
RScale == 2          \* denominator of a reconstructed (float) channel value
DirMax == 1          \* largest entry of an integer principal direction
HugeInt == 1000000   \* stands for int() of a huge float: above every side and 95

\* ------------------------------------------------------- numeric helpers
Max(a, b) == IF a >= b THEN a ELSE b
Min(a, b) == IF a <= b THEN a ELSE b

\* numpy holds an array's values, not the expression that gives them.
AsArray(s) == SubSeq(s, 1, Len(s))

\* Python int() of the float n / d (d > 0): truncation toward zero.
IntOfFloat(n, d) == IF n >= 0 THEN n \div d ELSE -((-n) \div d)

\* math.floor of n / d (d > 0); used only to state the specification's formula.
FloorDiv(n, d) == n \div d

Finite(q) == q.kind = "finite"
FiniteQ(n) == [kind |-> "finite", num |-> n, lim |-> 0]
HugeQ(sign, lim) == [kind |-> "huge", num |-> sign, lim |-> lim]
PosInf == [kind |-> "inf", num |-> 0, lim |-> 0]
NegInf == [kind |-> "-inf", num |-> 0, lim |-> 0]
NaN    == [kind |-> "nan", num |-> 0, lim |-> 0]

\* ------------------------------------------- Component Count Selector
\* compress_image.py line 30
max_components_of(h, w) == Min(h, w)

\* int(x) of a float raises OverflowError for an infinite x and ValueError
\* for nan (line 66, line 88: x is the quality itself).
IntRaises(q) == q.kind \in {"inf", "-inf", "nan"}

\* max_components * quality_percentage is computed in float64 first: it is
\* infinite for a huge quality on an image whose smaller side is above lim.
ProductOverflows(m, q) == q.kind = "huge" /\ m > q.lim

\* Line 31: int(max_components * quality_percentage / 100) raises.
SelectRaises(h, w, q) ==
    IntRaises(q) \/ ProductOverflows(max_components_of(h, w), q)

\* int(max_components * quality_percentage / 100) when it does not raise.
QuotientInt(m, q) ==
    IF q.kind = "huge" THEN q.num * HugeInt ELSE IntOfFloat(m * q.num, 100 * QScale)

\* int(quality_percentage) when it does not raise.
QualityInt(q) ==
    IF q.kind = "huge" THEN q.num * HugeInt ELSE IntOfFloat(q.num, QScale)

\* compress_image.py lines 31-32, when line 31 does not raise.
NComponentsNoLowerClamp(h, w, q) ==
    Min(QuotientInt(max_components_of(h, w), q), max_components_of(h, w))
NComponents(h, w, q) ==
    Min(Max(1, QuotientInt(max_components_of(h, w), q)), max_components_of(h, w))

\* compress_image.py line 66 and line 88, when int() does not raise.
JpegQualityNoFloor(q) == Min(95, QualityInt(q))
JpegQuality(q) == Max(10, Min(95, QualityInt(q)))
JpegQualityAlt(q) == Max(10, Min(95, QualityInt(q)))

\* ------------------------------------------------------------ input files
\* An input file is either undecodable or holds an image of some PIL mode.
\* Its pixels are generated from a pattern so that the state stays small:
\*   flat   every pixel (128, 64, 200)                      (zero variance)
\*   cols   every row identical, values change along a row  (zero variance)
\*   ramp   red and green change from row to row, blue only along a row
\*   grey   a single-channel (mode L) image changing from row to row
\*   veil   an RGBA image: constant colour, alpha changing from row to row
\*   tilt   a 3 x 2 image whose channels have centred rank 2
\*   weave  a 4 x 4 image whose channels have centred rank 3
Tilt ==
    << << <<45, 4>>, <<165, 90>>, <<251, 210>> >>,
       << <<192, 183>>, <<220, 78>>, <<87, 211>> >>,
       << <<160, 65>>, <<191, 138>>, <<103, 57>> >> >>
Weave ==
    << << <<94, 52, 153, 201>>, <<172, 130, 203, 151>>,
          <<167, 107, 208, 128>>, <<117, 57, 130, 206>> >>,
       << <<211, 92, 154, 35>>, <<153, 162, 96, 105>>,
          <<141, 214, 32, 105>>, <<89, 162, 84, 157>> >>,
       << <<88, 62, 182, 79>>, <<160, 90, 110, 51>>,
          <<52, 15, 152, 126>>, <<118, 15, 218, 126>> >> >>
PatternPixel(pattern, i, j) ==
    CASE pattern = "flat" -> <<128, 64, 200>>
      [] pattern = "cols" -> <<(60 * j) % 256, 255 - j, j - 1>>
      [] pattern = "ramp" -> <<30 * i + 7 * j, 255 - 40 * (i - 1), 9 * j>>
      [] pattern = "grey" -> <<30 * i + 10 * j>>
      [] pattern = "veil" -> <<10, 20, 30, 255 - i>>
      [] pattern = "tilt" -> <<Tilt[1][i][j], Tilt[2][i][j], Tilt[3][i][j]>>
      [] pattern = "weave" -> <<Weave[1][i][j], Weave[2][i][j], Weave[3][i][j]>>

CorruptFile == [decodable |-> FALSE, mode |-> "none", height |-> 0, width |-> 0,
                pattern |-> "none"]
ImageFile(mode, h, w, pattern) ==
    [decodable |-> TRUE, mode |-> mode, height |-> h, width |-> w, pattern |-> pattern]

Dims == 1..MaxDim
CandidateFiles ==
    {CorruptFile}
    \cup {ImageFile("RGB", h, w, p) : h \in Dims, w \in Dims, p \in {"flat", "cols", "ramp"}}
    \cup {ImageFile("L", h, w, "grey") : h \in Dims, w \in Dims}
    \cup {ImageFile("RGBA", h, w, "veil") : h \in Dims, w \in Dims}
    \cup {ImageFile("RGB", 3, 2, "tilt"), ImageFile("RGB", 4, 4, "weave")}

\* Image.open(image_path): raises for a file PIL cannot identify (line 16).
OpenRaises(file) == ~file.decodable

\* img.convert('RGB') (lines 19-20), for the modes of the input files: an
\* L pixel v becomes (v, v, v), an RGBA pixel loses its alpha.
ConvertRGB(mode, px) ==
    CASE mode = "RGB" -> px
      [] mode = "L" -> <<px[1], px[1], px[1]>>
      [] mode = "RGBA" -> <<px[1], px[2], px[3]>>

\* np.array(img) after the conversion (line 22): img_array[i][j][c].
ImgArray(file) ==
    AsArray([i \in 1..file.height |->
        AsArray([j \in 1..file.width |->
            ConvertRGB(file.mode, PatternPixel(file.pattern, i, j))])])

\* img_array[:, :, channel] (line 39).
ChannelData(arr, c) ==
    AsArray([i \in 1..Len(arr) |-> AsArray([j \in 1..Len(arr[i]) |-> arr[i][j][c]])])

\* ------------------------------------------- Rank-Reduction Transformer
\* sklearn's PCA is a library; it is modelled by what it computes.  X is an
\* H x W integer matrix, rows are observations.
RECURSIVE SumCol(_, _, _)
SumCol(X, j, i) == IF i = 0 THEN 0 ELSE X[i][j] + SumCol(X, j, i - 1)

\* pca.mean_: the column means, each held as its numerator over Len(X).
PcaMean(X) == AsArray([j \in 1..Len(X[1]) |-> SumCol(X, j, Len(X))])

\* Every row identical: the centred matrix is zero.
ZeroVariance(X) == \A i \in DOMAIN X : X[i] = X[1]

\* The rank of the centred matrix, by elimination on the integer rows
\* H * X[i] - (column sums), each row kept divided by the gcd of its entries.
RECURSIVE Gcd(_, _)
Gcd(a, b) == IF b = 0 THEN a ELSE Gcd(b, a % b)
AbsInt(x) == IF x >= 0 THEN x ELSE -x
RECURSIVE RowGcd(_, _)
RowGcd(row, j) == IF j = 0 THEN 0 ELSE Gcd(AbsInt(row[j]), RowGcd(row, j - 1))
ReduceRow(row) ==
    LET g == RowGcd(row, Len(row))
    IN IF g = 0 THEN row
       ELSE AsArray([j \in 1..Len(row) |-> row[j] \div g])
CentredRows(X) ==
    AsArray([i \in 1..Len(X) |->
        ReduceRow(AsArray([j \in 1..Len(X[1]) |->
            Len(X) * X[i][j] - SumCol(X, j, Len(X))]))])
RECURSIVE RowRank(_)
RowRank(rows) ==
    LET nonzero == {i \in 1..Len(rows) : \E j \in 1..Len(rows[i]) : rows[i][j] # 0}
    IN IF nonzero = {} THEN 0
       ELSE LET p == CHOOSE i \in nonzero : \A o \in nonzero : i <= o
                c == CHOOSE j \in 1..Len(rows[p]) :
                        /\ rows[p][j] # 0
                        /\ \A o \in 1..(j - 1) : rows[p][o] = 0
                others == SelectSeq([i \in 1..Len(rows) |-> <<i, rows[i]>>],
                                    LAMBDA e : e[1] # p)
                rest == AsArray([n \in 1..Len(others) |->
                            ReduceRow(AsArray([j \in 1..Len(rows[p]) |->
                                others[n][2][j] * rows[p][c]
                                    - rows[p][j] * others[n][2][c]]))])
            IN 1 + RowRank(rest)
CentredRank(X) == RowRank(CentredRows(X))

\* X - pca.mean_, each value held as its numerator over Len(X).
Centred(X) ==
    AsArray([i \in 1..Len(X) |->
        AsArray([j \in 1..Len(X[1]) |-> Len(X) * X[i][j] - PcaMean(X)[j]])])

RECURSIVE DotTo(_, _, _)
DotTo(u, v, n) == IF n = 0 THEN 0 ELSE u[n] * v[n] + DotTo(u, v, n - 1)
Dot(u, v) == DotTo(u, v, Len(u))

\* The scatter matrix Xc^T Xc, whose eigenvectors are the principal
\* directions and whose eigenvalues order them.
RECURSIVE ScatterTo(_, _, _, _)
ScatterTo(Xc, j, l, i) ==
    IF i = 0 THEN 0 ELSE Xc[i][j] * Xc[i][l] + ScatterTo(Xc, j, l, i - 1)
Scatter(Xc) ==
    AsArray([j \in 1..Len(Xc[1]) |->
        AsArray([l \in 1..Len(Xc[1]) |-> ScatterTo(Xc, j, l, Len(Xc))])])
Apply(C, v) == AsArray([j \in 1..Len(C) |-> Dot(C[j], v)])

\* The integer vectors a direction is looked for among: one per line through
\* the origin (first non-zero entry positive, entries without common factor).
Directions(w) ==
    {v \in [1..w -> (-DirMax)..DirMax] :
        /\ \E j \in 1..w : v[j] > 0 /\ \A o \in 1..(j - 1) : v[o] = 0
        /\ RowGcd(v, w) = 1}

\* v is an eigenvector of C with a non-zero eigenvalue.
IsAxis(C, v) ==
    LET cv == Apply(C, v)
    IN /\ \E j \in 1..Len(v) : cv[j] # 0
       /\ \A j \in 1..Len(v) : \A l \in 1..Len(v) : cv[j] * v[l] = cv[l] * v[j]
Axes(X) ==
    LET C == Scatter(Centred(X))
    IN {v \in Directions(Len(X[1])) : IsAxis(C, v)}

\* The variance along u is above the variance along v.
Above(C, u, v) == Dot(u, Apply(C, u)) * Dot(v, v) > Dot(v, Apply(C, v)) * Dot(u, u)

RECURSIVE Ordered(_, _)
Ordered(C, S) ==
    IF S = {} THEN <<>>
    ELSE LET top == CHOOSE v \in S : \A u \in S \ {v} : ~Above(C, u, v)
         IN <<top>> \o Ordered(C, S \ {top})

\* PCA.fit of a channel (lines 44-45): the rank of the centred data and the
\* directions of non-zero variance, largest variance first.
Fit(X) ==
    [channel |-> X,
     rank |-> CentredRank(X),
     axes |-> IF CentredRank(X) = 0 THEN <<>>
              ELSE Ordered(Scatter(Centred(X)), Axes(X))]

\* The fit is a function of the channel: it is taken once for each channel
\* of the candidate files and looked up afterwards.
SampleChannels ==
    {ChannelData(ImgArray(f), c) : f \in {g \in CandidateFiles : g.decodable}, c \in 1..3}
Fits == {Fit(X) : X \in SampleChannels}
Fitted(X) == CHOOSE t \in Fits : t.channel = X

\* Every direction of non-zero variance is among the integer vectors, and
\* no two have the same variance: the decomposition is then unique.
Resolved(X) ==
    LET C == Scatter(Centred(X))
        all == Fitted(X).axes
    IN /\ Len(all) = Fitted(X).rank
       /\ \A n \in 1..(Len(all) - 1) : Above(C, all[n], all[n + 1])

\* pca.components_ after PCA(n_components=k).fit (lines 44-45): the first k
\* directions, each held as the integer vector v that stands for v / |v|.
\* The components sklearn returns beyond the rank have scores 0 and add
\* nothing to the reconstruction; they are left out.
Components(X, k) == SubSeq(Fitted(X).axes, 1, Min(k, Len(Fitted(X).axes)))

\* pca.fit_transform (line 45): the scores, row i along component n, each
\* held as its numerator over Len(X) * |v|.
FitTransform(X, k) ==
    LET Xc == Centred(X)
        comps == Components(X, k)
    IN AsArray([i \in 1..Len(X) |->
           AsArray([n \in 1..Len(comps) |-> Dot(Xc[i], comps[n])])])

RECURSIVE NormProduct(_, _)
NormProduct(comps, n) ==
    IF n = 0 THEN 1 ELSE Dot(comps[n], comps[n]) * NormProduct(comps, n - 1)
RECURSIVE BackTo(_, _, _, _, _)
BackTo(scores, comps, j, P, n) ==
    IF n = 0 THEN 0
    ELSE scores[n] * comps[n][j] * (P \div Dot(comps[n], comps[n]))
            + BackTo(scores, comps, j, P, n - 1)

\* Floating point: a value computed by lines 45-48 may come out just below
\* the exact one, which matters to the truncation of line 59 when the exact
\* value is whole.  A rounding field says where: 1 just below, 0 exact, a on
\* the elements with i + j even and b on the others.  A channel whose
\* centred matrix is zero is reproduced exactly.
RoundingPairs == {<<0, 0>>, <<1, 1>>, <<1, 0>>, <<0, 1>>}
Field(X, pair) ==
    AsArray([i \in 1..Len(X) |-> AsArray([j \in 1..Len(X[1]) |->
        IF (i + j) % 2 = 0 THEN pair[1] ELSE pair[2]])])
Rounding(X, pair) == Field(X, IF Fitted(X).rank = 0 THEN <<0, 0>> ELSE pair)
Roundings(X) == {Rounding(X, pair) : pair \in RoundingPairs}

\* pca.inverse_transform (line 48): reduced @ components_ + mean_, exactly
\* (a rational over rows * the product of the |v|^2), then as a float, to
\* the resolution 1 / RScale.
InverseTransformNoMean(reduced, comps, mean, rows, dev) ==
    LET P == NormProduct(comps, Len(comps))
    IN AsArray([i \in 1..Len(reduced) |->
           AsArray([j \in 1..Len(mean) |->
               (RScale * BackTo(reduced[i], comps, j, P, Len(comps)) - dev[i][j])
                   \div (rows * P)])])
InverseTransform(reduced, comps, mean, rows, dev) ==
    LET P == NormProduct(comps, Len(comps))
    IN AsArray([i \in 1..Len(reduced) |->
           AsArray([j \in 1..Len(mean) |->
               (RScale * (mean[j] * P + BackTo(reduced[i], comps, j, P, Len(comps)))
                    - dev[i][j]) \div (rows * P)])])

\* Lines 42-48 for one channel.
Reconstruct(X, k, dev) ==
    InverseTransform(FitTransform(X, k), Components(X, k), PcaMean(X), Len(X), dev)

\* The input files explored: those whose channels are resolved.
SampleFiles ==
    {f \in CandidateFiles :
        f.decodable => \A c \in 1..3 : Resolved(ChannelData(ImgArray(f), c))}

\* ------------------------------------------------------------ Reassembler
\* np.clip(channel_reconstructed, 0, 255) (line 51).
ClipValue(v) == Max(0, Min(255 * RScale, v))
Clip(M) ==
    AsArray([i \in 1..Len(M) |-> AsArray([j \in 1..Len(M[i]) |-> ClipValue(M[i][j])])])

\* astype(np.uint8) of one float (line 59): truncation toward zero, and a
\* value outside [0, 255] wraps modulo 256.
AsUint8(v) == IntOfFloat(v, RScale) % 256

\* np.stack(compressed_channels, axis=2).astype(np.uint8) (lines 56-59).
StackAsUint8(chans) ==
    AsArray([i \in 1..Len(chans[1]) |-> AsArray([j \in 1..Len(chans[1][i]) |->
        AsArray([c \in 1..Len(chans) |-> AsUint8(chans[c][i][j])])])])

\* ===================================================== compress_image call
VARIABLES
    fn,                    \* which function of compress_image.py is running
    pc,                    \* its position
    image_file,            \* the file at image_path
    quality_percentage,    \* the quality argument
    img_array,             \* np.array(img): img_array[i][j][c]
    height, width,         \* original_shape
    n_components,
    channel_reconstructed, \* per channel, the reconstruction before clipping
    compressed_channels,   \* per channel, the clipped reconstruction
    img_compressed_array,
    jpeg_quality,
    output_file,           \* the file at output_path
    raised                 \* the exception re-raised to the caller, or "none"

cvars == <<fn, pc, image_file, quality_percentage, img_array, height, width,
           n_components, channel_reconstructed, compressed_channels,
           img_compressed_array, jpeg_quality, output_file, raised>>

\* The upload endpoint's state (defined with upload_file below).
VARIABLES
    req,        \* per request: its inputs, locals, position and response status
    uploads,    \* static/uploads: file name -> content
    downloads,  \* static/downloads: file name -> content
    uuids       \* the values uuid.uuid4() has returned so far

avars == <<req, uploads, downloads, uuids>>
vars == <<cvars, avars>>

NoFile == [written |-> FALSE]
JpegFile(image, quality) ==
    [written |-> TRUE, format |-> "JPEG", image |-> image, quality |-> quality]

\* The qualities one compress_image call is explored with.
SampleQualities ==
    {FiniteQ(n * QScale) : n \in {0, 1, 50, 100, 150}}
    \cup {FiniteQ(50 * QScale + 1), HugeQ(1, 1), HugeQ(-1, 2), PosInf, NegInf, NaN}

CallInit(f, file, q) ==
    /\ fn = f
    /\ pc = "open"
    /\ image_file = file
    /\ quality_percentage = q
    /\ img_array = <<>>
    /\ height = 0
    /\ width = 0
    /\ n_components = 0
    /\ channel_reconstructed = <<>>
    /\ compressed_channels = <<>>
    /\ img_compressed_array = <<>>
    /\ jpeg_quality = 0
    /\ output_file = NoFile
    /\ raised = "none"

\* except Exception as e: print(...); raise e  (lines 72-74, 95-97)
Raise(exc) ==
    /\ raised' = exc
    /\ pc' = "raised"

\* int(nan) is a ValueError, int() of an infinity an OverflowError.
IntError(q) == IF q.kind = "nan" THEN "ValueError" ELSE "OverflowError"

\* Lines 16-26: open, convert to RGB, take the array and its shape.
Open ==
    /\ UNCHANGED avars
    /\ fn = "compress_image"
    /\ pc = "open"
    /\ IF OpenRaises(image_file)
       THEN /\ Raise("UnidentifiedImageError")
            /\ UNCHANGED <<img_array, height, width>>
       ELSE /\ img_array' = ImgArray(image_file)
            /\ height' = Len(ImgArray(image_file))
            /\ width' = Len(ImgArray(image_file)[1])
            /\ pc' = "select"
            /\ UNCHANGED raised
    /\ UNCHANGED <<fn, image_file, quality_percentage, n_components,
                   channel_reconstructed, compressed_channels,
                   img_compressed_array, jpeg_quality, output_file>>

\* Lines 30-35: the component count, then the empty channel list.
Select ==
    /\ UNCHANGED avars
    /\ fn = "compress_image"
    /\ pc = "select"
    /\ IF SelectRaises(height, width, quality_percentage)
       THEN /\ Raise(IntError(quality_percentage))
            /\ UNCHANGED n_components
       ELSE /\ n_components' = NComponents(height, width, quality_percentage)
            /\ pc' = "loop"
            /\ UNCHANGED raised
    /\ UNCHANGED <<fn, image_file, quality_percentage, img_array, height, width,
                   channel_reconstructed, compressed_channels,
                   img_compressed_array, jpeg_quality, output_file>>

\* channels of original_shape (line 26).
Channels(arr) == Len(arr[1][1])

\* for channel in range(channels): the loop is over when every channel is done.
LoopDoneEarly(arr, chans) == Len(chans) >= 1
LoopDone(arr, chans) == Len(chans) = Channels(arr)

\* The channel the next iteration extracts (line 39).
NextChannelFirst(chans) == 1
NextChannel(chans) == Len(chans) + 1

\* What an iteration appends (lines 51-53).
ClippedNot(M) == M
Clipped(M) == Clip(M)

\* Lines 37-53, one iteration.
LoopChannel ==
    /\ UNCHANGED avars
    /\ fn = "compress_image"
    /\ pc = "loop"
    /\ ~LoopDone(img_array, compressed_channels)
    /\ LET X == ChannelData(img_array, NextChannel(compressed_channels))
           channel_reduced == FitTransform(X, n_components)
           components == Components(X, n_components)
       IN \E dev \in Roundings(X) :
            LET reconstructed ==
                    InverseTransform(channel_reduced, components, PcaMean(X),
                                     Len(X), dev)
            IN /\ channel_reconstructed' =
                      Append(channel_reconstructed, reconstructed)
               /\ compressed_channels' =
                      Append(compressed_channels, Clipped(reconstructed))
    /\ UNCHANGED <<fn, pc, image_file, quality_percentage, img_array, height, width,
                   n_components, img_compressed_array, jpeg_quality, output_file,
                   raised>>

\* Lines 56-62: stack, convert to uint8, wrap as an RGB image.
Reassemble ==
    /\ UNCHANGED avars
    /\ fn = "compress_image"
    /\ pc = "loop"
    /\ LoopDone(img_array, compressed_channels)
    /\ img_compressed_array' = StackAsUint8(compressed_channels)
    /\ pc' = "save"
    /\ UNCHANGED <<fn, image_file, quality_percentage, img_array, height, width,
                   n_components, channel_reconstructed, compressed_channels,
                   jpeg_quality, output_file, raised>>

\* Lines 66-67: the encoder quality, then the save to output_path.
Save ==
    /\ UNCHANGED avars
    /\ fn = "compress_image"
    /\ pc = "save"
    /\ jpeg_quality' = JpegQuality(quality_percentage)
    /\ output_file' = JpegFile(img_compressed_array, JpegQuality(quality_percentage))
    /\ pc' = "done"
    /\ UNCHANGED <<fn, image_file, quality_percentage, img_array, height, width,
                   n_components, channel_reconstructed, compressed_channels,
                   img_compressed_array, raised>>

\* compress_image_alternative, lines 83-85.
AltOpen ==
    /\ UNCHANGED avars
    /\ fn = "compress_image_alternative"
    /\ pc = "open"
    /\ IF OpenRaises(image_file)
       THEN /\ Raise("UnidentifiedImageError")
            /\ UNCHANGED <<img_array, height, width>>
       ELSE /\ img_array' = ImgArray(image_file)
            /\ height' = Len(ImgArray(image_file))
            /\ width' = Len(ImgArray(image_file)[1])
            /\ pc' = "save"
            /\ UNCHANGED raised
    /\ UNCHANGED <<fn, image_file, quality_percentage, n_components,
                   channel_reconstructed, compressed_channels,
                   img_compressed_array, jpeg_quality, output_file>>

\* compress_image_alternative, lines 88-91.
AltSave ==
    /\ UNCHANGED avars
    /\ fn = "compress_image_alternative"
    /\ pc = "save"
    /\ IF IntRaises(quality_percentage)
       THEN /\ Raise(IntError(quality_percentage))
            /\ UNCHANGED <<jpeg_quality, output_file>>
       ELSE /\ jpeg_quality' = JpegQualityAlt(quality_percentage)
            /\ output_file' = JpegFile(img_array, JpegQualityAlt(quality_percentage))
            /\ pc' = "done"
            /\ UNCHANGED raised
    /\ UNCHANGED <<fn, image_file, quality_percentage, img_array, height, width,
                   n_components, channel_reconstructed, compressed_channels,
                   img_compressed_array>>


\* ============================================================ upload_file
Requests == {"r1", "r2"}


NoFiles == [name \in {} |-> NoFile]
IdleRequest ==
    [pc |-> "start", has_file |-> FALSE, filename |-> <<>>, form |-> "none",
     body |-> CorruptFile, quality |-> NaN, file_extension |-> <<>>, saved |-> FALSE,
     upload_filename |-> [hex |-> 0, ext |-> <<>>],
     download_filename |-> [hex |-> 0, ext |-> <<>>],
     original_size |-> 0, opened |-> CorruptFile, status |-> 0]

AppIdle ==
    /\ req = [r \in Requests |-> IdleRequest]
    /\ uploads = NoFiles
    /\ downloads = NoFiles
    /\ uuids = {}

\* ------------------------------------------------ one compress_image call
Init ==
    /\ \E f \in {"compress_image", "compress_image_alternative"} :
       \E file \in SampleFiles :
       \E q \in SampleQualities :
          CallInit(f, file, q)
    /\ AppIdle

Next == Open \/ Select \/ LoopChannel \/ Reassemble \/ Save \/ AltOpen \/ AltSave

Spec == Init /\ [][Next]_vars

\* ------------------------------------- the selector and the encoder quality
\* The two pure derivations, applied to every height, width and quality of
\* the range: lines 30-32 and line 66 of compress_image, line 88 of
\* compress_image_alternative.
QualityRange ==
    {FiniteQ(n) : n \in (-(QOver * QScale))..((100 + QOver) * QScale)}
    \cup {HugeQ(sign, lim) : sign \in {-1, 1}, lim \in Dims}
    \cup {PosInf, NegInf, NaN}

InitSel ==
    /\ \E f \in {"compress_image", "compress_image_alternative"} :
       \E h \in Dims : \E w \in Dims : \E q \in QualityRange :
          /\ fn = f
          /\ height = (IF f = "compress_image" THEN h ELSE 1)
          /\ width = (IF f = "compress_image" THEN w ELSE 1)
          /\ quality_percentage = q
    /\ pc = "select"
    /\ image_file = CorruptFile
    /\ img_array = <<>>
    /\ n_components = 0
    /\ channel_reconstructed = <<>>
    /\ compressed_channels = <<>>
    /\ img_compressed_array = <<>>
    /\ jpeg_quality = 0
    /\ output_file = NoFile
    /\ raised = "none"
    /\ AppIdle

\* Lines 30-32.
SelComponents ==
    /\ fn = "compress_image"
    /\ pc = "select"
    /\ IF SelectRaises(height, width, quality_percentage)
       THEN /\ Raise(IntError(quality_percentage))
            /\ UNCHANGED n_components
       ELSE /\ n_components' = NComponents(height, width, quality_percentage)
            /\ pc' = "jpeg"
            /\ UNCHANGED raised
    /\ UNCHANGED <<fn, image_file, quality_percentage, img_array, height, width,
                   channel_reconstructed, compressed_channels,
                   img_compressed_array, jpeg_quality, output_file, avars>>

\* Line 66.
SelJpeg ==
    /\ fn = "compress_image"
    /\ pc = "jpeg"
    /\ jpeg_quality' = JpegQuality(quality_percentage)
    /\ pc' = "done"
    /\ UNCHANGED <<fn, image_file, quality_percentage, img_array, height, width,
                   n_components, channel_reconstructed, compressed_channels,
                   img_compressed_array, output_file, raised, avars>>

\* Line 88.
SelAltJpeg ==
    /\ fn = "compress_image_alternative"
    /\ pc = "select"
    /\ IF IntRaises(quality_percentage)
       THEN /\ Raise(IntError(quality_percentage))
            /\ UNCHANGED jpeg_quality
       ELSE /\ jpeg_quality' = JpegQualityAlt(quality_percentage)
            /\ pc' = "done"
            /\ UNCHANGED raised
    /\ UNCHANGED <<fn, image_file, quality_percentage, img_array, height, width,
                   n_components, channel_reconstructed, compressed_channels,
                   img_compressed_array, output_file, avars>>

NextSel == SelComponents \/ SelJpeg \/ SelAltJpeg

SpecSel == InitSel /\ [][NextSel]_vars

\* ------------------------------------------------------------ upload_file
\* A file name is a sequence of one-character strings.
Jpg  == <<".", "j", "p", "g">>
Jpeg == <<".", "j", "p", "e", "g">>
Png  == <<".", "p", "n", "g">>
Webp == <<".", "w", "e", "b", "p">>
Bmp  == <<".", "b", "m", "p">>
Tiff == <<".", "t", "i", "f", "f">>

\* app.py line 39
allowed_extensions == {Jpg, Jpeg, Png, Webp, Bmp, Tiff}

\* str.rfind: the last index of ch in p, 0 when there is none.
RFind(p, ch) ==
    LET hits == {i \in 1..Len(p) : p[i] = ch}
    IN IF hits = {} THEN 0 ELSE CHOOSE i \in hits : \A k \in hits : k <= i

\* os.path.splitext(p)[1]: from the last dot of the last path component,
\* unless that component has only dots before it.
SplitExt(p) ==
    LET sep == RFind(p, "/")
        dot == RFind(p, ".")
    IN IF dot > sep /\ \E f \in (sep + 1)..(dot - 1) : p[f] # "."
       THEN SubSeq(p, dot, Len(p))
       ELSE <<>>

\* str.lower of one character of a name (names are ASCII here).
UpperCase ==
    <<"A", "B", "C", "D", "E", "F", "G", "H", "I", "J", "K", "L", "M",
      "N", "O", "P", "Q", "R", "S", "T", "U", "V", "W", "X", "Y", "Z">>
LowerCase ==
    <<"a", "b", "c", "d", "e", "f", "g", "h", "i", "j", "k", "l", "m",
      "n", "o", "p", "q", "r", "s", "t", "u", "v", "w", "x", "y", "z">>
LowerChar(ch) ==
    IF \E n \in 1..Len(UpperCase) : UpperCase[n] = ch
    THEN LowerCase[CHOOSE n \in 1..Len(UpperCase) : UpperCase[n] = ch]
    ELSE ch
Lower(p) == [i \in 1..Len(p) |-> LowerChar(p[i])]

\* Line 40.
FileExtension(filename) == Lower(SplitExt(filename))

\* Lines 35-43: the reasons to answer 400 once the file part is there.
Rejected(filename) ==
    filename = <<>> \/ FileExtension(filename) \notin allowed_extensions

SampleFilenames ==
    { <<>>,
      <<"a", ".", "j", "p", "g">>,
      <<"B", ".", "W", "e", "b", "P">>,
      <<"c", ".", "g", "i", "f">>,
      <<".", "j", "p", "g">>,
      <<"d", ".", "p", "n", "g", "/", "e">>,
      <<"e">> }

\* request.form.get('quality', 80) and float() of it (line 32).
SampleForms == {"none", "1e308", "inf", "abc"}
FloatRaises(form) == form = "abc"
FloatOf(form) ==
    CASE form = "none" -> FiniteQ(80 * QScale)
      [] form = "1e308" -> HugeQ(1, 1)
      [] form = "inf" -> PosInf
      [] OTHER -> NaN

\* The uploaded bytes: two images, bytes that are no image, and no bytes.
EmptyFile == [decodable |-> FALSE, mode |-> "empty", height |-> 0, width |-> 0,
              pattern |-> "none"]
SampleBodies ==
    {ImageFile("RGB", 1, 1, "flat"), ImageFile("L", 2, 2, "grey"), CorruptFile, EmptyFile}

\* os.path.getsize: only whether it is 0 matters (line 68 divides by it).
FileSize(file) ==
    IF file.mode = "empty" THEN 0
    ELSE IF file.decodable THEN 3 * file.height * file.width ELSE 1

\* uuid.uuid4(): a value it has not returned before.
UuidSpace == 1..(2 * Cardinality(Requests))
Uuid4Colliding(used) == UuidSpace
Uuid4(used) == UuidSpace \ used

\* compress_image as one function of the file it opens, the quality and the
\* rounding field of each channel's reconstruction.
CompressRaises(file, q) ==
    OpenRaises(file) \/ SelectRaises(file.height, file.width, q)
CompressResult(file, q, devs) ==
    JpegFile(
        StackAsUint8(
            [c \in 1..3 |->
                Clipped(Reconstruct(ChannelData(ImgArray(file), c),
                                    NComponents(file.height, file.width, q),
                                    devs[c]))]),
        JpegQuality(q))

\* The rounding fields explored per request: exact, and just below at every
\* element.
SamplePairs == {<<0, 0>>, <<1, 1>>}
SampleNoises(file, q) ==
    {[c \in 1..3 |-> Rounding(ChannelData(ImgArray(file), c), pair)] :
        pair \in SamplePairs}

\* compress_image is a function of its arguments and of the rounding: what
\* it can save, for every file and quality a request can call it with
\* without it raising.
CompressInputs ==
    {in \in SampleBodies \X {FloatOf(form) : form \in {f \in SampleForms : ~FloatRaises(f)}} :
        ~CompressRaises(in[1], in[2])}
CompressTable ==
    {[file |-> in[1], quality |-> in[2],
      saved |-> {CompressResult(in[1], in[2], devs) : devs \in SampleNoises(in[1], in[2])}] :
        in \in CompressInputs}
CompressOutcomes(file, q) ==
    UNION {row.saved : row \in {t \in CompressTable : t.file = file /\ t.quality = q}}

WriteFile(dir, name, content) ==
    [n \in DOMAIN dir \cup {name} |-> IF n = name THEN content ELSE dir[n]]
RemoveFile(dir, name) == [n \in DOMAIN dir \ {name} |-> dir[n]]

\* Lines 85-86: if os.path.exists(upload_path): os.remove(upload_path)
CleanupNone(dir, name) == dir
Cleanup(dir, name) == IF name \in DOMAIN dir THEN RemoveFile(dir, name) ELSE dir

Respond(r, code) == req' = [req EXCEPT ![r].pc = "done", ![r].status = code]

\* Lines 26-43: the request arrives and is validated.
Validate(r) ==
    /\ req[r].pc = "start"
    /\ \E has_file \in BOOLEAN :
       \E filename \in SampleFilenames :
       \E form \in SampleForms :
       \E body \in SampleBodies :
          /\ ~has_file => (filename = <<>> /\ form = "none" /\ body = CorruptFile)
          /\ Rejected(filename) => body = CorruptFile
          /\ LET arrived == [req[r] EXCEPT !.has_file = has_file,
                                           !.filename = filename,
                                           !.form = form,
                                           !.body = body]
             IN IF ~has_file
                THEN req' = [req EXCEPT ![r] = [arrived EXCEPT !.pc = "done", !.status = 400]]
                ELSE IF FloatRaises(form)
                THEN req' = [req EXCEPT ![r] = [arrived EXCEPT !.pc = "done", !.status = 500]]
                ELSE IF Rejected(filename)
                THEN req' = [req EXCEPT ![r] = [arrived EXCEPT !.pc = "done", !.status = 400,
                                                             !.quality = FloatOf(form)]]
                ELSE req' = [req EXCEPT ![r] = [arrived EXCEPT !.pc = "save",
                                                             !.quality = FloatOf(form),
                                                             !.file_extension =
                                                                 FileExtension(filename)]]
    /\ UNCHANGED <<uploads, downloads, uuids, cvars>>

\* Lines 45-55: the two generated names, then file.save(upload_path).  After
\* the checks of lines 35-43 the filename is non-empty and the extension is
\* allowed, so the tests of lines 45 and 47 change nothing.
SaveUpload(r) ==
    /\ req[r].pc = "save"
    /\ \E u1 \in Uuid4(uuids) : \E u2 \in Uuid4(uuids \cup {u1}) :
          LET up == [hex |-> u1, ext |-> req[r].file_extension]
              down == [hex |-> u2, ext |-> Jpg]
          IN /\ req' = [req EXCEPT ![r].pc = "size", ![r].saved = TRUE,
                                   ![r].upload_filename = up,
                                   ![r].download_filename = down]
             /\ uploads' = WriteFile(uploads, up, req[r].body)
             /\ uuids' = uuids \cup {u1, u2}
    /\ UNCHANGED <<downloads, cvars>>

\* Line 58: os.path.getsize(upload_path); a missing file raises into the
\* outer handler (lines 90-92).
GetSize(r) ==
    /\ req[r].pc = "size"
    /\ IF req[r].upload_filename \in DOMAIN uploads
       THEN req' = [req EXCEPT ![r].pc = "open",
                               ![r].original_size =
                                   FileSize(uploads[req[r].upload_filename])]
       ELSE Respond(r, 500)
    /\ UNCHANGED <<uploads, downloads, uuids, cvars>>

\* Line 64, compress_image lines 16-32: the upload is opened and read.
CompressOpen(r) ==
    /\ req[r].pc = "open"
    /\ IF /\ req[r].upload_filename \in DOMAIN uploads
          /\ ~CompressRaises(uploads[req[r].upload_filename], req[r].quality)
       THEN req' = [req EXCEPT ![r].pc = "encode",
                               ![r].opened = uploads[req[r].upload_filename]]
       ELSE req' = [req EXCEPT ![r].pc = "except"]
    /\ UNCHANGED <<uploads, downloads, uuids, cvars>>

\* compress_image lines 37-67: the result is saved to download_path.
CompressSave(r) ==
    /\ req[r].pc = "encode"
    /\ \E image \in CompressOutcomes(req[r].opened, req[r].quality) :
          downloads' = WriteFile(downloads, req[r].download_filename, image)
    /\ req' = [req EXCEPT ![r].pc = "finish"]
    /\ UNCHANGED <<uploads, uuids, cvars>>

\* Lines 67-81: the sizes, the ratio, os.remove(upload_path), response 200.
Finish(r) ==
    /\ req[r].pc = "finish"
    /\ IF /\ req[r].download_filename \in DOMAIN downloads
          /\ req[r].original_size # 0
          /\ req[r].upload_filename \in DOMAIN uploads
       THEN /\ uploads' = RemoveFile(uploads, req[r].upload_filename)
            /\ Respond(r, 200)
       ELSE /\ req' = [req EXCEPT ![r].pc = "except"]
            /\ UNCHANGED uploads
    /\ UNCHANGED <<downloads, uuids, cvars>>

\* Lines 83-88: the upload is removed if it exists, response 500.
Except(r) ==
    /\ req[r].pc = "except"
    /\ uploads' = Cleanup(uploads, req[r].upload_filename)
    /\ Respond(r, 500)
    /\ UNCHANGED <<downloads, uuids, cvars>>

InitApp ==
    /\ CallInit("none", CorruptFile, NaN)
    /\ AppIdle

NextApp ==
    \E r \in Requests :
        \/ Validate(r)
        \/ SaveUpload(r)
        \/ GetSize(r)
        \/ CompressOpen(r)
        \/ CompressSave(r)
        \/ Finish(r)
        \/ Except(r)

SpecApp == InitApp /\ [][NextApp]_vars

\* ================================================================= claims
Abs(x) == IF x >= 0 THEN x ELSE -x
Clamp(x, lo, hi) == Min(Max(x, lo), hi)
IsCompress == fn = "compress_image"
Reassembled == IsCompress /\ pc \in {"save", "done"}
SourceArray == ImgArray(image_file)
\* quality <= n and quality >= n, for an integer n.
QAtMost(q, n) ==
    \/ Finite(q) /\ q.num <= n * QScale
    \/ q.kind = "huge" /\ q.num < 0
    \/ q = NegInf
QAtLeast(q, n) ==
    \/ Finite(q) /\ q.num >= n * QScale
    \/ q.kind = "huge" /\ q.num > 0
    \/ q = PosInf

\* C1: for every H x W image and every quality in [1, 100], the component
\* count that compress_image derives satisfies 1 <= k <= min(H, W).
C1_ComponentCountInRange ==
    (/\ IsCompress
     /\ pc \in {"jpeg", "done"}
     /\ Finite(quality_percentage)
     /\ quality_percentage.num >= QScale
     /\ quality_percentage.num <= 100 * QScale)
    => (n_components >= 1 /\ n_components <= Min(height, width))

\* Quality 1 on an image whose smaller side is at least 2: the product
\* truncates to 0 and the lower clamp gives 1.
C1_Witness ==
    /\ IsCompress
    /\ pc = "jpeg"
    /\ quality_percentage = FiniteQ(QScale)
    /\ Min(height, width) >= 2
    /\ n_components = 1

\* C2 (as claimed): whatever the quality, the selector raises nothing and
\* the component count is floor(min(H, W) * q / 100) clamped into
\* [1, min(H, W)]; q <= 0 gives 1, q >= 100 gives min(H, W), a 1 x 1 image
\* gives 1.
C2_SelectorTotal ==
    (IsCompress /\ pc # "select")
    => LET q == quality_percentage
           m == Min(height, width)
       IN /\ raised = "none"
          /\ Finite(q) =>
                n_components = Clamp(FloorDiv(m * q.num, 100 * QScale), 1, m)
          /\ QAtMost(q, 0) => n_components = 1
          /\ QAtLeast(q, 100) => n_components = m
          /\ (height = 1 /\ width = 1) => n_components = 1

\* C2, the part that holds: the same for every quality whose product with
\* min(H, W) is a finite float.
C2_FiniteProduct ==
    (/\ IsCompress
     /\ pc # "select"
     /\ ~SelectRaises(height, width, quality_percentage))
    => LET q == quality_percentage
           m == Min(height, width)
       IN /\ raised = "none"
          /\ Finite(q) =>
                n_components = Clamp(FloorDiv(m * q.num, 100 * QScale), 1, m)
          /\ QAtMost(q, 0) => n_components = 1
          /\ QAtLeast(q, 100) => n_components = m
          /\ (height = 1 /\ width = 1) => n_components = 1

\* C3: every channel value of the reassembled image is an integer in
\* [0, 255]; a reconstructed value below 0 has become 0 and one above 255
\* has become 255.
C3_OutputInRange ==
    Reassembled =>
        \A i \in DOMAIN img_compressed_array :
        \A j \in DOMAIN img_compressed_array[i] :
        \A c \in DOMAIN img_compressed_array[i][j] :
            LET v == img_compressed_array[i][j][c]
                r == channel_reconstructed[c][i][j]
            IN /\ v \in 0..255
               /\ r < 0 => v = 0
               /\ r > 255 * RScale => v = 255

\* A finished call in which the red reconstruction undershot at one pixel
\* and overshot at another.
C3_Witness ==
    /\ IsCompress
    /\ pc = "done"
    /\ n_components = 1
    /\ \E i \in 1..height : \E j \in 1..width :
          /\ channel_reconstructed[1][i][j] < 0
          /\ img_compressed_array[i][j][1] = 0
    /\ \E i \in 1..height : \E j \in 1..width :
          /\ channel_reconstructed[1][i][j] > 255 * RScale
          /\ img_compressed_array[i][j][1] = 255

\* C4: an output file exists only once all three channels have been
\* reconstructed, clipped and reassembled, and then holds the whole
\* reassembled image; a call that failed re-raises the failure and has
\* written no image.
C4_AllOrNothing ==
    IsCompress =>
        /\ output_file.written =>
              /\ pc = "done"
              /\ raised = "none"
              /\ Len(channel_reconstructed) = 3
              /\ Len(compressed_channels) = 3
              /\ output_file.image =
                     StackAsUint8([c \in 1..3 |-> Clip(channel_reconstructed[c])])
              /\ \A i \in 1..height : \A j \in 1..width :
                     Len(output_file.image[i][j]) = 3
        /\ pc = "raised" =>
              /\ raised \in {"UnidentifiedImageError", "OverflowError", "ValueError"}
              /\ ~output_file.written
              /\ img_compressed_array = <<>>
        /\ raised # "none" => pc = "raised"

\* A call that failed after the image had been loaded.
C4_Witness ==
    /\ IsCompress
    /\ pc = "raised"
    /\ height > 0
    /\ raised = "OverflowError"

\* C5: for a quality in (0, 100] the reassembled image has the input's
\* height and width and three channels, and its channel c is the clipped,
\* quantized reconstruction of input channel c.
C5_ShapeAndOrder ==
    (/\ Reassembled
     /\ Finite(quality_percentage)
     /\ quality_percentage.num > 0
     /\ quality_percentage.num <= 100 * QScale)
    => /\ Len(img_compressed_array) = image_file.height
       /\ \A i \in DOMAIN img_compressed_array :
             /\ Len(img_compressed_array[i]) = image_file.width
             /\ \A j \in DOMAIN img_compressed_array[i] :
                   Len(img_compressed_array[i][j]) = 3
       /\ \A c \in 1..3 :
             /\ \E dev \in Roundings(ChannelData(SourceArray, c)) :
                   channel_reconstructed[c] =
                       Reconstruct(ChannelData(SourceArray, c), n_components, dev)
             /\ \A i \in 1..image_file.height : \A j \in 1..image_file.width :
                   img_compressed_array[i][j][c] =
                       AsUint8(ClipValue(channel_reconstructed[c][i][j]))

\* A finished call on a non-square image whose channels differ and lose a
\* direction each.
C5_Witness ==
    /\ IsCompress
    /\ pc = "done"
    /\ image_file = ImageFile("RGB", 3, 2, "tilt")
    /\ quality_percentage = FiniteQ(50 * QScale)
    /\ n_components = 1
    /\ img_compressed_array[1] = << <<50, 166, 144>>, <<0, 157, 80>> >>

\* C6: the quality handed to the JPEG encoder is the input quality clamped
\* into [10, 95]: 10 for a quality <= 10, 95 for a quality >= 95, the
\* integer part of the quality in between, in both functions.
C6_EncoderQuality ==
    pc = "done" =>
        LET q == quality_percentage
        IN /\ jpeg_quality \in 10..95
           /\ QAtMost(q, 10) => jpeg_quality = 10
           /\ QAtLeast(q, 95) => jpeg_quality = 95
           /\ (Finite(q) /\ q.num > 10 * QScale /\ q.num < 95 * QScale) =>
                 jpeg_quality = FloorDiv(q.num, QScale)

\* compress_image at a quality just under 10.
C6_Witness ==
    /\ IsCompress
    /\ pc = "done"
    /\ quality_percentage = FiniteQ(10 * QScale - 1)
    /\ jpeg_quality = 10

\* C7: a channel whose rows are all identical never makes the call fail,
\* and its clipped, quantized reconstruction is within 1 of the original;
\* a 4 x 4 image of (128, 64, 200) at quality 50 gets k = 2.
C7_ZeroVariance ==
    (/\ IsCompress
     /\ image_file.decodable
     /\ ~SelectRaises(image_file.height, image_file.width, quality_percentage))
    => /\ (\A c \in 1..3 : ZeroVariance(ChannelData(SourceArray, c)))
            => raised = "none"
       /\ Reassembled =>
             \A c \in 1..3 :
                ZeroVariance(ChannelData(SourceArray, c)) =>
                   \A i \in 1..image_file.height : \A j \in 1..image_file.width :
                      Abs(img_compressed_array[i][j][c] - SourceArray[i][j][c]) <= 1
       /\ (/\ pc \in {"loop", "save", "done"}
           /\ image_file = ImageFile("RGB", 4, 4, "flat")
           /\ quality_percentage = FiniteQ(50 * QScale))
            => n_components = 2

\* The 4 x 4 image of (128, 64, 200) at quality 50, finished.
C7_Witness ==
    /\ IsCompress
    /\ pc = "done"
    /\ image_file = ImageFile("RGB", 4, 4, "flat")
    /\ quality_percentage = FiniteQ(50 * QScale)
    /\ n_components = 2
    /\ output_file.written
    /\ output_file.image[4][4] = <<128, 64, 200>>

PastSave(r) == req[r].saved
HasOpened(r) ==
    req[r].pc \in {"encode", "finish"} \/ (req[r].pc = "done" /\ req[r].status = 200)
OwnResults(r) == CompressOutcomes(req[r].body, req[r].quality)

\* C8: under any interleaving of the two upload requests the generated
\* names are distinct per request, each request's upload file holds its own
\* bytes until it removes it, what a request opens is its own upload, and the
\* file it answers 200 with is a result of compressing its own image at its
\* own quality.
C8_Isolation ==
    \A r \in Requests :
        /\ \A o \in Requests \ {r} :
              (PastSave(r) /\ PastSave(o)) =>
                  /\ req[r].upload_filename # req[o].upload_filename
                  /\ req[r].download_filename # req[o].download_filename
        /\ (PastSave(r) /\ req[r].pc \in {"size", "open", "encode", "finish"}) =>
              /\ req[r].upload_filename \in DOMAIN uploads
              /\ uploads[req[r].upload_filename] = req[r].body
        /\ HasOpened(r) => req[r].opened = req[r].body
        /\ (req[r].pc = "finish" \/ req[r].status = 200) =>
              /\ req[r].download_filename \in DOMAIN downloads
              /\ downloads[req[r].download_filename] \in OwnResults(r)

\* Both requests are inside compress_image at once, on different images with
\* the same extension.
C8_Witness ==
    /\ req["r1"].pc = "encode"
    /\ req["r2"].pc = "encode"
    /\ req["r1"].body # req["r2"].body
    /\ req["r1"].file_extension = req["r2"].file_extension

\* C9 (as claimed): a request with no file part, an empty filename or an
\* extension outside the allow-list is answered 400, and nothing was stored,
\* compressed or produced for it.
C9_RejectedWith400 ==
    \A r \in Requests :
        (/\ req[r].pc = "done"
         /\ (~req[r].has_file \/ Rejected(req[r].filename)))
        => /\ req[r].status = 400
           /\ ~req[r].saved
           /\ req[r].opened = CorruptFile
           /\ req[r].download_filename \notin DOMAIN downloads

\* C9, the part that holds: such a request is never answered 200 and nothing
\* is stored, compressed or produced for it; and a request that stored a
\* file had an allowed extension.
C9_NothingStored ==
    \A r \in Requests :
        /\ (/\ req[r].pc = "done"
            /\ (~req[r].has_file \/ Rejected(req[r].filename)))
           => /\ req[r].status \in {400, 500}
              /\ req[r].status = 500 => FloatRaises(req[r].form)
              /\ ~req[r].saved
              /\ req[r].download_filename \notin DOMAIN downloads
        /\ req[r].saved =>
              Lower(SplitExt(req[r].filename)) \in allowed_extensions

\* C10: when upload_file has returned for a request whose file was saved,
\* the saved upload no longer exists, after a 200 and after a 500.
C10_UploadRemoved ==
    \A r \in Requests :
        (req[r].pc = "done" /\ req[r].saved)
        => /\ req[r].upload_filename \notin DOMAIN uploads
           /\ req[r].status \in {200, 500}

\* A request answered 500 because compress_image raised on a saved upload,
\* next to one answered 200.
C10_Witness ==
    /\ req["r1"].pc = "done"
    /\ req["r1"].saved
    /\ req["r1"].status = 500
    /\ req["r2"].pc = "done"
    /\ req["r2"].status = 200

====
